---- MODULE Spec2Model ----
(***************************************************************************)
(* Solado: the crowdfunding escrow program of                              *)
(* src/solado/programs/solado/src/lib.rs, as a state machine.              *)
(*                                                                         *)
(* State: the clock, the lamports of the wallets, the Campaign accounts    *)
(* and the DonationRecord accounts owned by the program.  One action per   *)
(* instruction (create_campaign, donate, withdraw, refund,                 *)
(* delete_campaign); an action covers the Anchor account validation of the *)
(* instruction's #[derive(Accounts)] struct, the handler body and the      *)
(* account closing that Anchor performs on exit.  A failing instruction    *)
(* is a step that changes only `result` (the runtime rolls the transaction *)
(* back).                                                                  *)
(***************************************************************************)
EXTENDS Integers, Sequences, FiniteSets, TLC

VARIABLES
    now,              \* Clock::get()?.unix_timestamp
    overflow_checks,  \* build profile: does u64 `+=` panic (TRUE) or wrap (FALSE)
    lamports,         \* lamports of the wallets (signers)
    campaign,         \* live Campaign accounts, by address
    donation_record,  \* live DonationRecord accounts, by address
    audit,            \* history of each live campaign's escrow (not program state)
    result            \* the last instruction and its outcome

vars == <<now, overflow_checks, lamports, campaign, donation_record, audit, result>>

(***************************************************************************)
(* Bounds of the model.                                                    *)
(***************************************************************************)
MaxTime == 1      \* the clock runs 0..MaxTime
MaxRecords == 2   \* DonationRecord accounts alive at a time

(***************************************************************************)
(* Program constants.                                                      *)
(***************************************************************************)
\* u64::MAX, at a width of 3 bits
U64Max == 7
\* Rent::get()?.minimum_balance(Campaign::SPACE)
rent_exempt_balance == 1
\* the rent the payer of `init` deposits for DonationRecord::SPACE
record_rent == 1
\* the bump find_program_address settles on
canonical_bump == 255

Keys == {"k1", "k2"}
Titles == {"t"}
\* goal_amount arguments: the invalid one and one two donations can meet
Goals == {0, 2}
Deadlines == 1..MaxTime
\* donate amounts: none, below and at the goals, and large enough to pass u64::MAX
Amounts == {0, 1, 3, 5}
Timestamps == {0, 1}
\* lengths of description and metadata_uri: within the limits, and one past each
TextLens == {<<1000, 200>>, <<1001, 200>>, <<1000, 201>>}

(***************************************************************************)
(* Program derived addresses.  An address is the hash of the concatenated  *)
(* seed bytes and the bump; the hash is modelled as injective, so an       *)
(* address is that byte string.  A Pubkey is one opaque token.             *)
(***************************************************************************)
to_le_bytes(t) == [i \in 1..8 |-> IF i = 1 THEN t % 256 ELSE 0]

create_program_address(seeds, bump) == seeds \o <<bump>>

find_program_address(seeds) == create_program_address(seeds, canonical_bump)

\* variant: the creator is left out of the seeds
CampaignAddress_title_only(creator, title) ==
    find_program_address(<<"campaign", title>>)

\* CreateCampaign: seeds = [b"campaign", creator, title]
CampaignAddress(creator, title) ==
    find_program_address(<<"campaign", creator, title>>)

\* Donate: seeds = [b"donation", campaign, donor, timestamp.to_le_bytes()]
DonateRecordAddress(c, donor, timestamp) ==
    find_program_address(<<"donation", c, donor>> \o to_le_bytes(timestamp))

CampaignKeys == {CampaignAddress(k, t) : k \in Keys, t \in Titles}

RecordKeys ==
    {DonateRecordAddress(c, d, ts) : c \in CampaignKeys, d \in Keys, ts \in Timestamps}

RecordsOf(c) == {r \in DOMAIN donation_record : donation_record[r].campaign = c}

RECURSIVE SumAmounts(_)
SumAmounts(rs) ==
    IF rs = {} THEN 0
    ELSE LET r == CHOOSE x \in rs : TRUE
         IN  donation_record[r].amount + SumAmounts(rs \ {r})

TotalLamports ==
    LET RECURSIVE SumOver(_, _)
        SumOver(f, S) ==
            IF S = {} THEN 0
            ELSE LET x == CHOOSE y \in S : TRUE
                 IN  f[x].lamports + SumOver(f, S \ {x})
    IN  lamports["k1"] + lamports["k2"]
        + SumOver(campaign, DOMAIN campaign)
        + SumOver(donation_record, DOMAIN donation_record)

Outcome(op, err, signer, c, r, amount) ==
    [op |-> op, err |-> err]

\* variant: the lamports donate transferred before it panicked stay transferred
Fail_keeps_transfer(op, err, signer, c, r, amount) ==
    /\ result' = Outcome(op, err, signer, c, r, amount)
    /\ IF op = "donate" /\ err = "Panic"
       THEN /\ lamports' = [lamports EXCEPT ![signer] = @ - amount]
            /\ campaign' = [campaign EXCEPT ![c].lamports = @ + amount]
       ELSE UNCHANGED <<lamports, campaign>>
    /\ UNCHANGED <<now, overflow_checks, donation_record, audit>>

\* the transaction is rolled back: only the outcome is observed
Fail(op, err, signer, c, r, amount) ==
    /\ result' = Outcome(op, err, signer, c, r, amount)
    /\ UNCHANGED <<now, overflow_checks, lamports, campaign, donation_record, audit>>

NoKey == <<>>

\* the wallets hold the whole supply, which fits a u64
InitialLamports == {[k \in Keys |-> IF k = "k1" THEN 1 ELSE U64Max - 1]}

Init ==
    /\ now = 0
    /\ overflow_checks \in BOOLEAN
    /\ lamports \in InitialLamports
    /\ campaign = <<>>
    /\ donation_record = <<>>
    /\ audit = <<>>
    /\ result = Outcome("init", "Ok", "k1", NoKey, NoKey, 0)

(***************************************************************************)
(* The require! chains of withdraw and refund, and the record of which of  *)
(* the two settlements a campaign has offered.                             *)
(***************************************************************************)
\* variant: is_active is not required
WithdrawValidate_no_active_check(camp, creator, unix_timestamp) ==
    IF ~(camp.creator = creator) THEN "Unauthorized"
    ELSE IF ~(unix_timestamp >= camp.deadline) THEN "CampaignNotExpired"
    ELSE IF ~(camp.donated_amount >= camp.goal_amount) THEN "GoalNotReached"
    ELSE "Ok"

\* the require! chain of withdraw
WithdrawValidate(camp, creator, unix_timestamp) ==
    IF ~(camp.creator = creator) THEN "Unauthorized"
    ELSE IF ~camp.is_active THEN "CampaignNotActive"
    ELSE IF ~(unix_timestamp >= camp.deadline) THEN "CampaignNotExpired"
    ELSE IF ~(camp.donated_amount >= camp.goal_amount) THEN "GoalNotReached"
    ELSE "Ok"

\* the require! chain of refund
RefundValidate(camp, c, rec, donor, unix_timestamp) ==
    IF ~(rec.donor = donor) THEN "Unauthorized"
    ELSE IF ~(rec.campaign = c) THEN "InvalidCampaign"
    ELSE IF ~(unix_timestamp >= camp.deadline) THEN "CampaignNotExpired"
    ELSE IF ~(camp.donated_amount < camp.goal_amount) THEN "GoalReached"
    ELSE "Ok"

\* the settlements whose require! chain passes for the campaign at time t:
\* withdraw for its creator, refund for the donor of one of its records
SettlementPaths(camp, c, recs, t) ==
    (IF WithdrawValidate(camp, camp.creator, t) = "Ok"
     THEN {"withdraw"} ELSE {})
    \cup
    (IF \E r \in DOMAIN recs :
          RefundValidate(camp, c, recs[r], recs[r].donor, t) = "Ok"
     THEN {"refund"} ELSE {})

\* audit.paths: the settlements offered since the creation of the campaign
\* or, for the campaigns in `crossed`, since the donate that just took
\* donated_amount from below goal_amount to at least goal_amount
Observe(aud, camps, recs, t, crossed) ==
    [c \in DOMAIN aud |->
       [aud[c] EXCEPT
          !.paths = (IF c \in crossed THEN {} ELSE @)
                      \cup SettlementPaths(camps[c], c, recs, t)]]

(***************************************************************************)
(* The clock of the host.                                                  *)
(***************************************************************************)
Tick ==
    /\ now < MaxTime
    /\ now' = now + 1
    /\ audit' = Observe(audit, campaign, donation_record, now + 1, {})
    /\ result' = Outcome("tick", "Ok", "k1", NoKey, NoKey, 0)
    /\ UNCHANGED <<overflow_checks, lamports, campaign, donation_record>>

(***************************************************************************)
(* create_campaign                                                         *)
(***************************************************************************)
CreateCampaign(creator, title, goal_amount, deadline, text_len) ==
    LET c == CampaignAddress(creator, title)
        F(err) == Fail("create_campaign", err, creator, c, NoKey, 0)
    IN
    \* #[account(init, payer = creator, ...)]
    IF c \in DOMAIN campaign THEN F("AccountInUse")
    ELSE IF lamports[creator] < rent_exempt_balance THEN F("InsufficientLamports")
    \* handler
    ELSE IF ~(goal_amount > 0) THEN F("InvalidGoalAmount")
    ELSE IF ~(deadline > now) THEN F("InvalidDeadline")
    ELSE IF ~(text_len[1] <= 1000) THEN F("DescriptionTooLong")
    ELSE IF ~(text_len[2] <= 200) THEN F("UriTooLong")
    ELSE
        /\ lamports' = [lamports EXCEPT ![creator] = @ - rent_exempt_balance]
        /\ campaign' =
             [k \in DOMAIN campaign \cup {c} |->
                IF k = c
                THEN [creator |-> creator,
                      goal_amount |-> goal_amount, donated_amount |-> 0,
                      deadline |-> deadline,
                      is_active |-> TRUE, bump |-> canonical_bump,
                      lamports |-> rent_exempt_balance]
                ELSE campaign[k]]
        /\ audit' =
             [k \in DOMAIN audit \cup {c} |->
                IF k = c
                THEN [escrowed |-> 0, to_creator |-> 0, to_donors |-> 0,
                      withdrawn |-> FALSE, refunded |-> FALSE,
                      paths |-> SettlementPaths(campaign'[c], c,
                                                donation_record, now)]
                ELSE audit[k]]
        /\ result' = Outcome("create_campaign", "Ok", creator, c, NoKey, 0)
        /\ UNCHANGED <<now, overflow_checks, donation_record>>

(***************************************************************************)
(* donate                                                                  *)
(***************************************************************************)
\* `campaign.donated_amount += amount` on a u64 when the sum does not fit
wrapping_add(a, b) == (a + b) % (U64Max + 1)

Donate(donor, c, amount, timestamp) ==
    LET r == DonateRecordAddress(c, donor, timestamp)
        F(err) == Fail("donate", err, donor, c, r, amount)
    IN
    \* the account space of the model
    Cardinality(DOMAIN donation_record) < MaxRecords /\
    \* pub campaign: Account<'info, Campaign>
    IF c \notin DOMAIN campaign THEN F("AccountNotInitialized")
    \* #[account(init, payer = donor, ...)] pub donation_record
    ELSE IF r \in DOMAIN donation_record THEN F("AccountInUse")
    ELSE IF lamports[donor] < record_rent THEN F("InsufficientLamports")
    \* system_instruction::transfer(donor, campaign, amount), invoke(...)?
    ELSE IF lamports[donor] - record_rent < amount THEN F("TransferFailed")
    \* campaign.donated_amount += amount
    ELSE IF campaign[c].donated_amount + amount > U64Max /\ overflow_checks
         THEN F("Panic")
    ELSE
        /\ lamports' = [lamports EXCEPT ![donor] = @ - record_rent - amount]
        /\ campaign' =
             [campaign EXCEPT
                ![c].lamports = @ + amount,
                ![c].donated_amount = wrapping_add(@, amount)]
        /\ donation_record' =
             [k \in DOMAIN donation_record \cup {r} |->
                IF k = r
                THEN [donor |-> donor, campaign |-> c, amount |-> amount,
                      timestamp |-> timestamp, bump |-> 0,
                      lamports |-> record_rent]
                ELSE donation_record[k]]
        /\ audit' =
             Observe([audit EXCEPT ![c].escrowed = @ + amount],
                     campaign', donation_record', now,
                     IF /\ campaign[c].donated_amount < campaign[c].goal_amount
                        /\ campaign'[c].donated_amount >= campaign[c].goal_amount
                     THEN {c} ELSE {})
        /\ result' = Outcome("donate", "Ok", donor, c, r, amount)
        /\ UNCHANGED <<now, overflow_checks>>

(***************************************************************************)
(* withdraw                                                                *)
(***************************************************************************)
\* the has_one = creator constraint of Withdraw and of DeleteCampaign
has_one_creator(camp, creator) == camp.creator = creator

\* variant: the reserve is not kept back
withdrawable_amount_whole_balance(campaign_balance) == campaign_balance

\* campaign_balance.checked_sub(rent_exempt_balance), when it is Some
withdrawable_amount(campaign_balance) == campaign_balance - rent_exempt_balance

Withdraw(creator, c) ==
    LET F(err) == Fail("withdraw", err, creator, c, NoKey, 0)
    IN
    IF c \notin DOMAIN campaign THEN F("AccountNotInitialized")
    ELSE IF ~has_one_creator(campaign[c], creator) THEN F("ConstraintHasOne")
    ELSE IF WithdrawValidate(campaign[c], creator, now) # "Ok"
         THEN F(WithdrawValidate(campaign[c], creator, now))
    ELSE IF campaign[c].lamports < rent_exempt_balance THEN F("InsufficientFunds")
    ELSE IF lamports[creator] + withdrawable_amount(campaign[c].lamports) > U64Max
         THEN F("Overflow")
    ELSE
        LET amount == withdrawable_amount(campaign[c].lamports) IN
        /\ campaign' =
             [campaign EXCEPT
                ![c].lamports = rent_exempt_balance,
                ![c].is_active = FALSE]
        /\ lamports' = [lamports EXCEPT ![creator] = @ + amount]
        /\ audit' =
             Observe([audit EXCEPT
                        ![c].to_creator = @ + amount, ![c].withdrawn = TRUE],
                     campaign', donation_record, now, {})
        /\ result' = Outcome("withdraw", "Ok", creator, c, NoKey, amount)
        /\ UNCHANGED <<now, overflow_checks, donation_record>>

(***************************************************************************)
(* refund                                                                  *)
(***************************************************************************)
\* variant: the seeds of Donate, so that refund finds the record donate stored
RefundRecordAddress_donate_seeds(c, donor, rec) ==
    DonateRecordAddress(c, donor, rec.timestamp)

\* Refund: seeds = [b"donation", campaign, donor], bump = donation_record.bump
RefundRecordAddress(c, donor, rec) ==
    create_program_address(<<"donation", c, donor>>, rec.bump)

\* variant: the attribute reduced to #[account(mut)]
RefundRecordAccount_mut_only(c, donor, r, rec) ==
    [seeds_ok |-> TRUE, close |-> FALSE]

\* #[account(mut, seeds = [...], bump = donation_record.bump, close = donor)]:
\* what the attribute checks on entry and does on exit
RefundRecordAccount(c, donor, r, rec) ==
    [seeds_ok |-> r = RefundRecordAddress(c, donor, rec), close |-> TRUE]

Refund(donor, c, r) ==
    LET F(err) == Fail("refund", err, donor, c, r, 0)
    IN
    IF c \notin DOMAIN campaign THEN F("AccountNotInitialized")
    ELSE IF r \notin DOMAIN donation_record THEN F("AccountNotInitialized")
    ELSE IF ~RefundRecordAccount(c, donor, r, donation_record[r]).seeds_ok
         THEN F("ConstraintSeeds")
    ELSE IF RefundValidate(campaign[c], c, donation_record[r], donor, now) # "Ok"
         THEN F(RefundValidate(campaign[c], c, donation_record[r], donor, now))
    ELSE
        LET refund_amount == donation_record[r].amount
            close == RefundRecordAccount(c, donor, r, donation_record[r]).close
        IN
        IF campaign[c].lamports < refund_amount THEN F("InsufficientFunds")
        ELSE IF lamports[donor] + refund_amount > U64Max THEN F("Overflow")
        ELSE IF campaign[c].donated_amount < refund_amount THEN F("Underflow")
        ELSE
            /\ campaign' =
                 [campaign EXCEPT
                    ![c].lamports = @ - refund_amount,
                    ![c].donated_amount = @ - refund_amount]
            \* close = donor: the record's lamports go to the donor
            /\ lamports' =
                 [lamports EXCEPT
                    ![donor] = @ + refund_amount
                                 + (IF close THEN donation_record[r].lamports ELSE 0)]
            /\ donation_record' =
                 IF close
                 THEN [k \in DOMAIN donation_record \ {r} |-> donation_record[k]]
                 ELSE donation_record
            /\ audit' =
                 Observe([audit EXCEPT
                            ![c].to_donors = @ + refund_amount,
                            ![c].refunded = TRUE],
                         campaign', donation_record', now, {})
            /\ result' = Outcome("refund", "Ok", donor, c, r, refund_amount)
            /\ UNCHANGED <<now, overflow_checks>>

(***************************************************************************)
(* delete_campaign                                                         *)
(***************************************************************************)
\* the require! chain of delete_campaign
DeleteValidate(camp, creator) ==
    IF ~(camp.creator = creator) THEN "Unauthorized"
    ELSE IF ~(camp.donated_amount = 0) THEN "CampaignHasDonations"
    ELSE "Ok"

DeleteCampaign(creator, c) ==
    LET F(err) == Fail("delete_campaign", err, creator, c, NoKey, 0)
    IN
    IF c \notin DOMAIN campaign THEN F("AccountNotInitialized")
    ELSE IF ~has_one_creator(campaign[c], creator) THEN F("ConstraintHasOne")
    ELSE IF DeleteValidate(campaign[c], creator) # "Ok"
         THEN F(DeleteValidate(campaign[c], creator))
    ELSE
        \* close = creator: all lamports of the account go to the creator
        /\ lamports' = [lamports EXCEPT ![creator] = @ + campaign[c].lamports]
        /\ campaign' = [k \in DOMAIN campaign \ {c} |-> campaign[k]]
        /\ audit' = [k \in DOMAIN audit \ {c} |-> audit[k]]
        /\ result' = Outcome("delete_campaign", "Ok", creator, c, NoKey,
                             campaign[c].lamports)
        /\ UNCHANGED <<now, overflow_checks, donation_record>>

Next ==
    \/ Tick
    \/ \E creator \in Keys, title \in Titles, g \in Goals, d \in Deadlines,
          tl \in TextLens :
          CreateCampaign(creator, title, g, d, tl)
    \/ \E donor \in Keys, c \in CampaignKeys, a \in Amounts, ts \in Timestamps :
          Donate(donor, c, a, ts)
    \/ \E creator \in Keys, c \in CampaignKeys : Withdraw(creator, c)
    \/ \E donor \in Keys, c \in CampaignKeys, r \in RecordKeys : Refund(donor, c, r)
    \/ \E creator \in Keys, c \in CampaignKeys : DeleteCampaign(creator, c)

Spec == Init /\ [][Next]_vars

\* lamports are neither created nor destroyed, and every balance fits a u64
LamportsConserved == TotalLamports = U64Max

(***************************************************************************)
(* Properties.                                                             *)
(***************************************************************************)
ProgramState == <<lamports, campaign, donation_record>>

\* a donate that passes the account validation and whose transfer is funded
DonateFunded(donor, c, amount, timestamp) ==
    /\ c \in DOMAIN campaign
    /\ DonateRecordAddress(c, donor, timestamp) \notin DOMAIN donation_record
    /\ lamports[donor] >= record_rent + amount

\* C1: for every existing campaign, donated_amount is the sum of the amounts
\* of the live DonationRecords of that campaign.
DonatedEqualsRecords ==
    \A c \in DOMAIN campaign :
        campaign[c].donated_amount = SumAmounts(RecordsOf(c))

\* C2: what withdraw paid to the creator plus what refund paid to donors
\* never exceeds what successful donates moved into the campaign's escrow.
SettledWithinEscrowed ==
    \A c \in DOMAIN audit :
        audit[c].to_creator + audit[c].to_donors <= audit[c].escrowed

\* a withdraw has paid the creator out of escrowed donations
SettledWitness ==
    \E c \in DOMAIN audit :
        /\ audit[c].withdrawn
        /\ audit[c].to_creator > 0
        /\ audit[c].to_creator = audit[c].escrowed

\* C3: no campaign has both a successful refund and a successful withdraw.
NeverBothSettlements ==
    \A c \in DOMAIN audit : ~(audit[c].withdrawn /\ audit[c].refunded)

\* a refund was requested on the only campaign, which has been withdrawn,
\* for a live record
BothSettlementsWitness ==
    \E c \in CampaignKeys :
        /\ DOMAIN campaign = {c}
        /\ audit[c].withdrawn
        /\ RecordsOf(c) # {}
        /\ result.op = "refund"
        /\ result.err \notin {"AccountNotInitialized"}

\* C4: past the deadline with the goal unmet, a refund requested by a
\* record's donor for the record's campaign succeeds, pays exactly the
\* record's amount out of the escrow and destroys the record.
RefundOfRecordSucceeds ==
    [][\A d \in Keys, c \in CampaignKeys, r \in RecordKeys :
         ( /\ c \in DOMAIN campaign
           /\ r \in DOMAIN donation_record
           /\ donation_record[r].donor = d
           /\ donation_record[r].campaign = c
           /\ donation_record[r].amount > 0
           /\ now >= campaign[c].deadline
           /\ campaign[c].donated_amount < campaign[c].goal_amount
           /\ Refund(d, c, r) )
         => ( /\ result'.err = "Ok"
              /\ c \in DOMAIN campaign'
              /\ campaign'[c].lamports =
                   campaign[c].lamports - donation_record[r].amount
              /\ r \notin DOMAIN donation_record' )]_vars

\* C5: a donate at or after the deadline fails with CampaignExpired and
\* changes nothing, so donated_amount does not grow once the deadline is
\* reached.
DonateAfterDeadlineRejected ==
    [][\A d \in Keys, c \in CampaignKeys, a \in Amounts, ts \in Timestamps :
         ( /\ DonateFunded(d, c, a, ts)
           /\ campaign[c].donated_amount + a <= U64Max
           /\ a > 0
           /\ now >= campaign[c].deadline
           /\ Donate(d, c, a, ts) )
         => ( /\ result'.err = "CampaignExpired"
              /\ UNCHANGED ProgramState )]_vars

\* C6: a donate to a campaign whose is_active is false fails with
\* CampaignNotActive and changes nothing.
DonateToInactiveRejected ==
    [][\A d \in Keys, c \in CampaignKeys, a \in Amounts, ts \in Timestamps :
         ( /\ DonateFunded(d, c, a, ts)
           /\ campaign[c].donated_amount + a <= U64Max
           /\ a > 0
           /\ ~campaign[c].is_active
           /\ Donate(d, c, a, ts) )
         => ( /\ result'.err = "CampaignNotActive"
              /\ UNCHANGED ProgramState )]_vars

\* C7: a donate of amount 0 fails with InvalidDonationAmount and changes
\* nothing, so every live DonationRecord has amount > 0.
ZeroDonationRejected ==
    [][ /\ \A d \in Keys, c \in CampaignKeys, ts \in Timestamps :
             (DonateFunded(d, c, 0, ts) /\ Donate(d, c, 0, ts))
             => ( /\ result'.err = "InvalidDonationAmount"
                  /\ UNCHANGED ProgramState )
        /\ \A r \in DOMAIN donation_record' : donation_record'[r].amount > 0
      ]_vars

\* C8: a donate that would push donated_amount past u64::MAX fails with
\* the typed Overflow error and changes nothing; donated_amount never wraps.
DonateOverflowRejected ==
    [][\A d \in Keys, c \in CampaignKeys, a \in Amounts, ts \in Timestamps :
         ( /\ DonateFunded(d, c, a, ts)
           /\ campaign[c].donated_amount + a > U64Max
           /\ Donate(d, c, a, ts) )
         => ( /\ result'.err = "Overflow"
              /\ UNCHANGED ProgramState )]_vars

\* C9: a campaign is withdrawn at most once: is_active goes from true to
\* false only in a successful withdraw, never back, a withdraw succeeds only
\* on a campaign not yet withdrawn, and a later withdraw by the creator fails
\* with CampaignNotActive.
WithdrawAtMostOnce ==
    [][\A c \in DOMAIN campaign \cap DOMAIN campaign' :
         /\ (campaign[c].is_active /\ ~campaign'[c].is_active)
              => (result' = Outcome("withdraw", "Ok", "k1", c, NoKey, 0)
                  /\ ~audit[c].withdrawn /\ audit'[c].withdrawn)
         /\ ~campaign[c].is_active => ~campaign'[c].is_active
         /\ audit[c].withdrawn => ~campaign[c].is_active
         /\ audit'[c].to_creator # audit[c].to_creator => ~audit[c].withdrawn
         /\ \A k \in Keys :
              (audit[c].withdrawn /\ campaign[c].creator = k /\ Withdraw(k, c))
              => ( /\ result'.err = "CampaignNotActive"
                   /\ UNCHANGED ProgramState )]_vars

\* the creator's second withdraw was refused with CampaignNotActive
WithdrawTwiceWitness ==
    /\ result = Outcome("withdraw", "CampaignNotActive", "k1", NoKey, NoKey, 0)
    /\ \E c \in DOMAIN campaign : audit[c].withdrawn /\ audit[c].to_creator > 0

\* the outcome the preconditions of withdraw call for
WithdrawExpected(camp, requester) ==
    IF camp.creator # requester THEN "Unauthorized"
    ELSE IF ~camp.is_active THEN "CampaignNotActive"
    ELSE IF ~(now >= camp.deadline) THEN "CampaignNotExpired"
    ELSE IF ~(camp.donated_amount >= camp.goal_amount) THEN "GoalNotReached"
    ELSE "Ok"

\* C10: withdraw succeeds only for the creator of an active campaign past its
\* deadline with the goal met; otherwise it fails with Unauthorized,
\* CampaignNotActive, CampaignNotExpired or GoalNotReached respectively and
\* changes nothing.  On success the creator gains the escrow balance minus
\* the reserve, the escrow balance becomes the reserve and is_active false.
WithdrawContract ==
    [][\A k \in Keys, c \in CampaignKeys :
         (c \in DOMAIN campaign /\ Withdraw(k, c))
         => IF WithdrawExpected(campaign[c], k) # "Ok"
            THEN /\ result'.err = WithdrawExpected(campaign[c], k)
                 /\ UNCHANGED ProgramState
            ELSE result'.err = "Ok"
                 => ( /\ lamports'[k] = lamports[k]
                           + (campaign[c].lamports - rent_exempt_balance)
                      /\ campaign'[c].lamports = rent_exempt_balance
                      /\ ~campaign'[c].is_active )]_vars

RefundByStrangerRejected ==
    [][\A d \in Keys, c \in CampaignKeys, r \in RecordKeys :
         (c \in DOMAIN campaign /\ r \in DOMAIN donation_record
            /\ Refund(d, c, r))
         => ( /\ donation_record[r].donor # d
                   => (result'.err = "Unauthorized" /\ UNCHANGED ProgramState)
              /\ (donation_record[r].donor = d
                    /\ donation_record[r].campaign # c)
                   => (result'.err = "InvalidCampaign"
                       /\ UNCHANGED ProgramState) )]_vars

\* C13: delete of a campaign with donated_amount > 0 fails with
\* CampaignHasDonations, delete by a requester who is not the creator fails
\* with Unauthorized, and in both cases the campaign remains unchanged.
DeleteContract ==
    [][\A k \in Keys, c \in CampaignKeys :
         (c \in DOMAIN campaign /\ DeleteCampaign(k, c))
         => ( /\ (campaign[c].creator = k /\ campaign[c].donated_amount > 0)
                   => (result'.err = "CampaignHasDonations"
                       /\ UNCHANGED ProgramState)
              /\ campaign[c].creator # k
                   => (result'.err = "Unauthorized"
                       /\ UNCHANGED ProgramState) )]_vars

SettlementPathsExclusive ==
    \A c \in DOMAIN campaign :
       /\ SettlementPaths(campaign[c], c, donation_record, now)
            # {"withdraw", "refund"}
       /\ audit[c].paths # {"withdraw", "refund"}

IntegrityErrorsUnreachable ==
    /\ \A c \in DOMAIN campaign :
         /\ campaign[c].lamports >= rent_exempt_balance
         /\ \A r \in DOMAIN donation_record :
              RefundValidate(campaign[c], c, donation_record[r],
                             donation_record[r].donor, now) = "Ok"
              => /\ campaign[c].lamports >= donation_record[r].amount
                 /\ campaign[c].donated_amount >= donation_record[r].amount
    /\ result.err \notin {"InsufficientFunds", "Underflow"}

\* the campaign-side state of the campaign at address b: its account and
\* the DonationRecords that name it
CampaignView(camps, recs, b) ==
    <<IF b \in DOMAIN camps THEN <<camps[b]>> ELSE <<>>,
      [r \in {k \in DOMAIN recs : recs[k].campaign = b} |-> recs[r]]>>

\* the step is an operation addressed to the campaign at address a
AddressedTo(a, creator, title) ==
    \/ \E goal_amount \in Goals, deadline \in Deadlines, text_len \in TextLens :
         CreateCampaign(creator, title, goal_amount, deadline, text_len)
    \/ \E d \in Keys, amount \in Amounts, timestamp \in Timestamps :
         Donate(d, a, amount, timestamp)
    \/ \E k \in Keys : Withdraw(k, a)
    \/ \E d \in Keys, r \in RecordKeys : Refund(d, a, r)
    \/ \E k \in Keys : DeleteCampaign(k, a)

\* C18: an operation addressed to one campaign leaves the fields, the
\* escrow balance and the DonationRecords of every other campaign
\* unchanged, and a refund naming a record of another campaign changes
\* neither campaign.  (Stated by contraposition: a step that changes a
\* campaign is not an operation addressed to another one, nor a refund
\* that names a record of another one.)
CampaignsIndependent ==
    [][\A ka \in Keys, kb \in Keys, ta \in Titles, tb \in Titles :
         <<ka, ta>> # <<kb, tb>>
         => LET a == CampaignAddress(ka, ta)
                b == CampaignAddress(kb, tb)
            IN
            /\ CampaignView(campaign', donation_record', b)
                 # CampaignView(campaign, donation_record, b)
               => ~AddressedTo(a, ka, ta)
            /\ CampaignView(campaign', donation_record', a)
                 # CampaignView(campaign, donation_record, a)
               => \A d \in Keys, r \in DOMAIN donation_record :
                    donation_record[r].campaign = b => ~Refund(d, a, r)]_vars

\* both campaigns are alive with DonationRecords of their own, and the
\* creator of one has just withdrawn from it
TwoCampaignsWitness ==
    /\ DOMAIN campaign = CampaignKeys
    /\ Cardinality(CampaignKeys) = 2
    /\ \A c \in CampaignKeys : RecordsOf(c) # {}
    /\ result = Outcome("withdraw", "Ok", "k1", NoKey, NoKey, 0)

\* C19: a successful withdraw leaves donated_amount and the campaign's
\* DonationRecords unchanged, and from then on donated_amount stays at
\* least goal_amount > 0, the campaign is never deleted, every refund by
\* the donor of one of its records fails with GoalReached and every delete
\* by its creator fails with CampaignHasDonations.
WithdrawnStaysSettled ==
    [][\A c \in DOMAIN campaign :
         /\ (result'.op = "withdraw" /\ result'.err = "Ok"
               /\ \E k \in Keys : Withdraw(k, c))
            => CampaignView(campaign', donation_record', c)[2]
                 = CampaignView(campaign, donation_record, c)[2]
               /\ campaign'[c].donated_amount = campaign[c].donated_amount
         /\ audit[c].withdrawn
            => /\ c \in DOMAIN campaign'
               /\ campaign'[c].donated_amount >= campaign'[c].goal_amount
               /\ campaign'[c].goal_amount > 0
               /\ \A r \in RecordsOf(c) :
                    Refund(donation_record[r].donor, c, r)
                    => result'.err = "GoalReached"
               /\ \A k \in Keys :
                    (campaign[c].creator = k /\ DeleteCampaign(k, c))
                    => result'.err = "CampaignHasDonations"]_vars

\* C20: no DonationRecord outlives its campaign: the campaign field of every
\* live record names a live campaign, so a delete succeeds only on a
\* campaign without live records whose escrow holds the reserve alone.
NoRecordOutlivesCampaign ==
    [][ /\ \A r \in DOMAIN donation_record' :
             donation_record'[r].campaign \in DOMAIN campaign'
        /\ \A k \in Keys, c \in DOMAIN campaign :
             (result'.op = "delete_campaign" /\ result'.err = "Ok"
                /\ DeleteCampaign(k, c))
             => /\ RecordsOf(c) = {}
                /\ campaign[c].lamports = rent_exempt_balance ]_vars

====
